---- MODULE Spec2Model ----
(***************************************************************************)
(* Model of the GPT_Killer_Killer scoring service: the request validator   *)
(* (app/models.py), the handler (app/api/routes/ai.py) and the scoring     *)
(* core (app/utils.py).                                                    *)
(*                                                                         *)
(* Characters are Unicode code points (integers), a text is a sequence of  *)
(* code points.  A Python float is a fixed-point integer in units of       *)
(* 1/Scale: x stands for x/Scale, divisions round down.                    *)
(***************************************************************************)
EXTENDS Integers, Sequences, FiniteSets, TLC

\* ------------------------------------------------------------------ bounds

\* Longest text of the exhaustive family (every text over Alphabet).
MaxLen == 4

\* The feature grid of direct scorer calls has the values k/GridSteps.
GridSteps == 4

\* The score grid of direct labeler calls has the values k/ScoreSteps.
ScoreSteps == 20

\* ------------------------------------------------------------ fixed point

\* The fixed-point unit: the float 1.0.
Scale == 10000

\* The float literal n/d, e.g. Dec(3, 10) for 0.3.
Dec(n, d) == (n * Scale) \div d

\* float(n) of an int.
Float(n) == n * Scale

\* a / b on ints (b > 0), a float.
IntDiv(a, b) == (a * Scale) \div b

\* x / y on floats (y > 0).
FDiv(x, y) == (x * Scale) \div y

\* x * y on floats.
FMul(x, y) == (x * y) \div Scale

Max(a, b) == IF a >= b THEN a ELSE b

Min(a, b) == IF a <= b THEN a ELSE b

\* max(0.0, min(1.0, x))
Clamp01(x) == Max(0, Min(Scale, x))

RECURSIVE SqrtSearch(_, _, _)
\* The largest r in lo..hi with r * r <= x (lo * lo <= x).
SqrtSearch(x, lo, hi) ==
    IF lo >= hi THEN lo
    ELSE LET mid == (lo + hi + 1) \div 2
         IN  IF mid * mid <= x THEN SqrtSearch(x, mid, hi)
             ELSE SqrtSearch(x, lo, mid - 1)

\* math.sqrt of a value held in units of 1/Scale^2; the result is in 1/Scale.
Sqrt(x) == SqrtSearch(x, 0, 46340)

\* ------------------------------------------------------------- characters

SP == 32

NL == 10

DOT == 46

BANG == 33

QMARK == 63

LatinA == 97

\* U+AC00, the first Hangul syllable.
Ga == 44032

\* U+D7A3, the last Hangul syllable.
Hih == 55203

\* U+B2C8
Ni == 45768

\* U+B2E4
Da == 45796

\* U+C989
Jeuk == 51593

\* str.isspace / the regex class \s
IsSpace(c) ==
    \/ c \in 9..13
    \/ c \in 28..32
    \/ c \in {133, 160, 5760, 8232, 8233, 8239, 8287, 12288}
    \/ c \in 8192..8202

\* The regex class [\w] on the characters of the model: ASCII letters, digits
\* and underscore, and the Hangul syllables.
IsWord(c) ==
    \/ c \in 48..57
    \/ c \in 65..90
    \/ c = 95
    \/ c \in 97..122
    \/ c \in Ga..Hih

\* ---------------------------------------------------------------- strings

\* s[a..b], empty when a > b.
Slice(s, a, b) == IF a > b THEN << >> ELSE SubSeq(s, a, b)

\* str.strip()
Strip(s) ==
    IF \A i \in 1..Len(s) : IsSpace(s[i]) THEN << >>
    ELSE LET a == CHOOSE i \in 1..Len(s) :
                      ~IsSpace(s[i]) /\ \A j \in 1..(i - 1) : IsSpace(s[j])
             b == CHOOSE i \in 1..Len(s) :
                      ~IsSpace(s[i]) /\ \A j \in (i + 1)..Len(s) : IsSpace(s[j])
         IN  SubSeq(s, a, b)

\* s.endswith(suffix)
EndsWith(s, suffix) ==
    /\ Len(s) >= Len(suffix)
    /\ SubSeq(s, Len(s) - Len(suffix) + 1, Len(s)) = suffix

KOREAN_CONNECTIVES ==
    { <<46608, 54620>>, <<54616, 51648, 47564>>, <<44536, 47084, 45208>>,
      <<44208, 47200, 51201, 51004, 47196>>,
      <<50836, 50557, 54616, 51088, 47732>>,
      <<44172, 45796, 44032>>, <<54620, 54200>>, <<46384, 46972, 49436>>,
      <<51593>>, <<46412, 47928, 50640>>, <<44536, 47100, 50640, 46020>> }

FORMAL_ENDINGS ==
    << <<Ni, Da, DOT>>, <<Ni, Da, BANG>>, <<Ni, Da, QMARK>>,
       <<Da, DOT>>, <<Da, BANG>>, <<Da, QMARK>> >>

\* -------------------------------------------------------------- tokenizer

\* The last index of the run [\w]+ that starts at i.
WordRunEnd(text, i) ==
    CHOOSE e \in i..Len(text) :
        /\ \A k \in i..e : IsWord(text[k])
        /\ e = Len(text) \/ ~IsWord(text[e + 1])

\* re.findall(r"[\w]+", text): the maximal runs of word characters, in the
\* order of their first characters.
FindallWord(text) ==
    LET positions == [i \in 1..Len(text) |-> i]
        starts == SelectSeq(positions,
                      LAMBDA i : IsWord(text[i]) /\ (i = 1 \/ ~IsWord(text[i - 1])))
    IN  [k \in 1..Len(starts) |-> SubSeq(text, starts[k], WordRunEnd(text, starts[k]))]

simple_tokenize(text) ==
    SelectSeq(FindallWord(text), LAMBDA t : Strip(t) # << >>)

\* ------------------------------------------------------ sentence splitter

IsNewline(c) == c = NL

IsTerminator(c) == c \in {DOT, BANG, QMARK}

\* The last index of the run \s+ that starts at i.
SpaceRunEnd(text, i) ==
    CHOOSE e \in i..Len(text) :
        /\ \A k \in i..e : IsSpace(text[k])
        /\ e = Len(text) \/ ~IsSpace(text[e + 1])

\* The last index of the run \n+ that starts at i.
NewlineRunEnd(text, i) ==
    CHOOSE e \in i..Len(text) :
        /\ \A k \in i..e : IsNewline(text[k])
        /\ e = Len(text) \/ ~IsNewline(text[e + 1])

\* (?<=[\.!?])\s+ matches at i
MatchesAfterTerminator(text, i) ==
    i > 1 /\ IsTerminator(text[i - 1]) /\ IsSpace(text[i])

\* The pattern (?<=[\.!?])\s+|\n+ matches at i.
SeparatorAt(text, i) == MatchesAfterTerminator(text, i) \/ IsNewline(text[i])

\* SeparatorEnd taking one character too many.
SeparatorEndOffByOne(text, i) ==
    LET e == IF MatchesAfterTerminator(text, i) THEN SpaceRunEnd(text, i)
             ELSE NewlineRunEnd(text, i)
    IN  IF e < Len(text) THEN e + 1 ELSE e

\* The last index of the match of the pattern at i: the first alternative is
\* tried first.
SeparatorEnd(text, i) ==
    IF MatchesAfterTerminator(text, i) THEN SpaceRunEnd(text, i)
    ELSE NewlineRunEnd(text, i)

RECURSIVE ReSplit(_, _)
\* re.split(r"(?<=[\.!?])\s+|\n+", text) from position start on: the piece up
\* to the leftmost match, then the pieces after that match.
ReSplit(text, start) ==
    IF \A i \in start..Len(text) : ~SeparatorAt(text, i)
    THEN << Slice(text, start, Len(text)) >>
    ELSE LET m == CHOOSE i \in start..Len(text) :
                      /\ SeparatorAt(text, i)
                      /\ \A j \in start..(i - 1) : ~SeparatorAt(text, j)
         IN  << Slice(text, start, m - 1) >> \o ReSplit(text, SeparatorEnd(text, m) + 1)

split_sentences(text) ==
    LET raw == ReSplit(text, 1)
        kept == SelectSeq(raw, LAMBDA s : Strip(s) # << >>)
    IN  [i \in 1..Len(kept) |-> Strip(kept[i])]

\* ------------------------------------------------------ feature extractor

RECURSIVE SumSeq(_)
\* sum(seq)
SumSeq(seq) == IF seq = << >> THEN 0 ELSE Head(seq) + SumSeq(Tail(seq))

\* set(tokens)
TokenSet(tokens) == {tokens[i] : i \in 1..Len(tokens)}

\* Counter(tokens).most_common(1)[0][1]
MostCommonFreq(tokens) ==
    LET freq(t) == Cardinality({i \in 1..Len(tokens) : tokens[i] = t})
    IN  CHOOSE m \in 1..Len(tokens) :
            /\ \E t \in TokenSet(tokens) : freq(t) = m
            /\ \A t \in TokenSet(tokens) : freq(t) <= m

\* any(s.endswith(fe) for fe in FORMAL_ENDINGS)
HasFormalEnding(s) == \E k \in 1..Len(FORMAL_ENDINGS) : EndsWith(s, FORMAL_ENDINGS[k])

FeatureKeys ==
    { "length_tokens", "type_token_ratio", "avg_sentence_len",
      "sentence_burstiness", "repetition_ratio", "formal_ending_ratio",
      "connectives_per_sentence" }

\* sqrt(sum((l - mean) ** 2 for l in sent_lens) / (len(sent_lens) - 1))
SampleStd(sent_lens, mean) ==
    LET sq == [i \in 1..Len(sent_lens) |->
                  (Float(sent_lens[i]) - mean) * (Float(sent_lens[i]) - mean)]
    IN  Sqrt(SumSeq(sq) \div (Len(sent_lens) - 1))

\* SentenceStd with the mean, not 0.0, left in std for fewer than two sentences.
SentenceStdFallback(sent_lens, mean) ==
    IF Len(sent_lens) > 1 THEN SampleStd(sent_lens, mean) ELSE mean

\* std of the sentence lengths: 0.0 unless there are at least two sentences.
SentenceStd(sent_lens, mean) ==
    IF Len(sent_lens) > 1 THEN SampleStd(sent_lens, mean) ELSE 0

\* The formal endings a sentence matches, every one of them counted.
FormalCountNoBreak(sentences) ==
    SumSeq([i \in 1..Len(sentences) |->
        Cardinality({k \in 1..Len(FORMAL_ENDINGS) :
                        EndsWith(sentences[i], FORMAL_ENDINGS[k])})])

\* formal_count: the sentences that end in a formal ending, each counted once.
FormalCount(sentences) ==
    Cardinality({i \in 1..Len(sentences) : HasFormalEnding(sentences[i])})

compute_features(text) ==
    LET sentences == split_sentences(text)
        tokens == simple_tokenize(text)
        n_tokens == Len(tokens)
        n_sent == IF sentences # << >> THEN Len(sentences) ELSE 1
        type_token_ratio == IntDiv(Cardinality(TokenSet(tokens)), n_tokens)
        sent_lens == [i \in 1..Len(sentences) |-> Len(simple_tokenize(sentences[i]))]
        avg_sentence_len == IntDiv(SumSeq(sent_lens), n_sent)
        std == SentenceStd(sent_lens, avg_sentence_len)
        burstiness == IF avg_sentence_len > 0 THEN FDiv(std, avg_sentence_len)
                      ELSE 0
        repetition_ratio == IntDiv(MostCommonFreq(tokens), n_tokens)
        formal_count == FormalCount(sentences)
        formal_ending_ratio == IntDiv(formal_count, n_sent)
        connective_count ==
            Cardinality({i \in 1..Len(tokens) : tokens[i] \in KOREAN_CONNECTIVES})
        connectives_per_sentence == IntDiv(connective_count, n_sent)
    IN  IF n_tokens = 0 THEN [k \in FeatureKeys |-> 0]
        ELSE [ length_tokens            |-> Float(n_tokens),
               type_token_ratio         |-> type_token_ratio,
               avg_sentence_len         |-> avg_sentence_len,
               sentence_burstiness      |-> burstiness,
               repetition_ratio         |-> repetition_ratio,
               formal_ending_ratio      |-> formal_ending_ratio,
               connectives_per_sentence |-> connectives_per_sentence ]

\* ----------------------------------------------------------------- scorer

\* base_penalty of a text of `length` tokens
BasePenalty(length) == IF length < Float(30) THEN Dec(1, 10) ELSE 0

\* TTR: [0.3, 0.8] -> [1, 0]
TtrScore(ttr) == Scale - Clamp01(FDiv(ttr - Dec(3, 10), Dec(8, 10) - Dec(3, 10)))

\* BurstScore without the "1.0 -".
BurstScoreNotInverted(burst) == Clamp01(FDiv(burst, Dec(8, 10)))

\* Burstiness: [0.0, 0.8] -> [1, 0]
BurstScore(burst) == Scale - Clamp01(FDiv(burst, Dec(8, 10)))

\* FormalScore mapped the way of the burstiness, [0.0, 0.8] -> [1, 0].
FormalScoreInverted(formal) == Scale - Clamp01(FDiv(formal, Dec(8, 10)))

\* Formal endings: [0.0, 0.8] -> [0, 1]
FormalScore(formal) == Clamp01(FDiv(formal, Dec(8, 10)))

\* ConnScore without the clamp.
ConnScoreUnclamped(conn) == FDiv(conn, Dec(8, 10))

\* Connectives: [0.0, 0.8] -> [0, 1]
ConnScore(conn) == Clamp01(FDiv(conn, Dec(8, 10)))

\* RepScore over the range [0.0, 0.8] of the other sub-scores.
RepScoreWrongRange(repetition) == Clamp01(FDiv(repetition, Dec(8, 10)))

\* Repetition: [0.0, 0.2] -> [0, 1]
RepScore(repetition) == Clamp01(FDiv(repetition, Dec(2, 10)))

\* The weighted sum of the five sub-scores.
AiScoreRaw(ttr_score, burst_score, formal_score, conn_score, rep_score) ==
    FMul(Dec(30, 100), ttr_score) + FMul(Dec(20, 100), burst_score)
        + FMul(Dec(20, 100), formal_score) + FMul(Dec(15, 100), conn_score)
        + FMul(Dec(15, 100), rep_score)

\* max(0.0, min(1.0, ai_score_raw + base_penalty))
AiScore(ai_score_raw, base_penalty) == Clamp01(ai_score_raw + base_penalty)

score_ai_likelihood(features) ==
    LET ttr == features.type_token_ratio
        burst == features.sentence_burstiness
        formal == features.formal_ending_ratio
        conn == features.connectives_per_sentence
        length == features.length_tokens
        repetition == features.repetition_ratio
        base_penalty == BasePenalty(length)
        ttr_score == TtrScore(ttr)
        burst_score == BurstScore(burst)
        formal_score == FormalScore(formal)
        conn_score == ConnScore(conn)
        rep_score == RepScore(repetition)
        ai_score_raw == AiScoreRaw(ttr_score, burst_score, formal_score,
                                   conn_score, rep_score)
    IN  [ ttr_score         |-> ttr_score,
          burstiness_score  |-> burst_score,
          formal_score      |-> formal_score,
          connectives_score |-> conn_score,
          repetition_score  |-> rep_score,
          ai_score_raw      |-> ai_score_raw,
          ai_score          |-> AiScore(ai_score_raw, base_penalty) ]

\* ---------------------------------------------------------------- labeler

\* label_from_score with strict comparisons.
label_from_score_strict(score) ==
    IF score > Dec(7, 10) THEN "AI_LIKELY"
    ELSE IF score > Dec(4, 10) THEN "UNCERTAIN"
         ELSE "HUMAN_LIKELY"

label_from_score(score) ==
    IF score >= Dec(7, 10) THEN "AI_LIKELY"
    ELSE IF score >= Dec(4, 10) THEN "UNCERTAIN"
         ELSE "HUMAN_LIKELY"

\* ------------------------------------------------------ request validator

\* "가" <= ch <= "힣"
IsKorean(ch) == Ga <= ch /\ ch <= Hih

\* text_validate with the length check off by one.
text_validate_off_by_one(text) ==
    LET v == Strip(text)
        stripped == SelectSeq(v, LAMBDA ch : ~IsSpace(ch))
        korean_count == Cardinality({i \in 1..Len(stripped) : IsKorean(stripped[i])})
    IN  IF Len(v) < 300 THEN [ok |-> FALSE, error |-> "too_short", v |-> << >>]
        ELSE IF stripped = << >>
             THEN [ok |-> FALSE, error |-> "no_valid_chars", v |-> << >>]
             ELSE IF IntDiv(korean_count, Len(stripped)) < Dec(8, 10)
                  THEN [ok |-> FALSE, error |-> "korean_only", v |-> << >>]
                  ELSE [ok |-> TRUE, error |-> "", v |-> v]

\* GPTKillerRequest.text_validate: the validated value, or the error raised.
text_validate(text) ==
    LET v == Strip(text)
        stripped == SelectSeq(v, LAMBDA ch : ~IsSpace(ch))
        korean_count == Cardinality({i \in 1..Len(stripped) : IsKorean(stripped[i])})
    IN  IF Len(v) <= 300 THEN [ok |-> FALSE, error |-> "too_short", v |-> << >>]
        ELSE IF stripped = << >>
             THEN [ok |-> FALSE, error |-> "no_valid_chars", v |-> << >>]
             ELSE IF IntDiv(korean_count, Len(stripped)) < Dec(8, 10)
                  THEN [ok |-> FALSE, error |-> "korean_only", v |-> << >>]
                  ELSE [ok |-> TRUE, error |-> "", v |-> v]

\* ----------------------------------------------------------------- inputs

\* The characters of the exhaustive family: newline, space, a sentence
\* terminator, a Latin letter, the formal ending and a one-syllable connective.
Alphabet == {NL, SP, DOT, LatinA, Da, Jeuk}

\* Every text over Alphabet of at most MaxLen characters.
SmallTexts == UNION {[1..n -> Alphabet] : n \in 0..MaxLen}

\* c repeated n times
Rep(c, n) == [i \in 1..n |-> c]

\* n distinct one-syllable words, the from-th to the (from + n - 1)-th after
\* U+AC00, separated by single spaces.
Words(from, n) ==
    [j \in 1..(2 * n - 1) |-> IF j % 2 = 1 THEN Ga + from + (j \div 2) ELSE SP]

\* A sentence of n words closed by punct; with formal its last word ends in
\* the formal ending.
Sent(from, n, formal, punct) ==
    Words(from, n) \o (IF formal THEN <<Ni, Da>> ELSE << >>) \o <<punct>>

\* Two-sentence texts of n1 and n2 words of which `shared` words of the second
\* sentence repeat words of the first, optionally opened by a connective.
TwoSentenceTexts ==
    { (IF conn THEN <<Jeuk, SP>> ELSE << >>)
        \o Sent(0, n[1], f1, punct) \o <<sep>>
        \o Sent(n[1] - shared, n[2], f2, punct) :
        n \in {<<20, 20>>, <<15, 14>>, <<15, 15>>, <<17, 13>>},
        shared \in {0, 1, 8, 9}, f1 \in BOOLEAN, f2 \in BOOLEAN,
        punct \in {DOT, BANG, QMARK}, sep \in {SP, NL}, conn \in BOOLEAN }

\* Five sentences of 20 distinct words; the last one is followed by one word of
\* h Hangul syllables and a Latin letters: 205 + h + a characters, of which
\* 105 + h + a are not whitespace and 100 + h are Hangul syllables.
Essay(h, a) ==
    Sent(0, 20, FALSE, DOT) \o <<SP>> \o Sent(20, 20, FALSE, DOT) \o <<SP>>
        \o Sent(40, 20, FALSE, DOT) \o <<SP>> \o Sent(60, 20, FALSE, DOT)
        \o <<SP>> \o Words(80, 20) \o <<SP>> \o Rep(Ga, h) \o Rep(LatinA, a)
        \o <<DOT>>

\* Request bodies around the validator's limits, with and without surrounding
\* whitespace, and a body of whitespace alone.
EssayTexts ==
    { lead \o Essay(ha[1], ha[2]) \o trail :
        ha \in {<<95, 0>>, <<96, 0>>, <<61, 35>>, <<60, 36>>, <<64, 36>>, <<63, 37>>},
        lead \in {<< >>, <<SP>>, <<NL, SP>>},
        trail \in {<< >>, <<SP, NL>>} }
      \cup {Rep(SP, 301)}

Texts == SmallTexts \cup TwoSentenceTexts \cup EssayTexts

\* The floats k/GridSteps of [0, 1].
UnitGrid == {IntDiv(k, GridSteps) : k \in 0..GridSteps}

\* The FeatureSets of direct scorer calls.
FeatureGrid ==
    [ length_tokens            : {Float(29), Float(30)},
      type_token_ratio         : UnitGrid,
      avg_sentence_len         : {Float(10)},
      sentence_burstiness      : UnitGrid \cup {Dec(15, 10)},
      repetition_ratio         : UnitGrid,
      formal_ending_ratio      : UnitGrid,
      connectives_per_sentence : UnitGrid \cup {Dec(15, 10)} ]

\* The scores of direct labeler calls: k/ScoreSteps around [0, 1].
ScoreGrid == {IntDiv(k, ScoreSteps) : k \in (0 - 2)..(ScoreSteps + 2)}

\* ------------------------------------------------------------------ state

VARIABLES
    origin,         \* what the caller handed over: "request", "text", "features" or "score"
    pc,             \* the position of the call
    text,           \* the text handed over
    request_text,   \* request.text, the validated field
    error,          \* the validation error raised
    features,       \* the FeatureSet
    feature_scores, \* the SubScoreSet
    ai_score,       \* the final score
    label           \* the label

vars ==
    <<origin, pc, text, request_text, error, features, feature_scores,
      ai_score, label>>

ScoreKeys ==
    { "ttr_score", "burstiness_score", "formal_score", "connectives_score",
      "repetition_score", "ai_score_raw", "ai_score" }

\* Not computed yet.
NoFeatures == [k \in FeatureKeys |-> 0 - 1]

NoScores == [k \in ScoreKeys |-> 0 - 1]

NoScore == 0 - 1

Init ==
    /\ request_text = << >>
    /\ error = ""
    /\ label = ""
    /\ feature_scores = NoScores
    /\ \/ /\ origin = "request" /\ pc = "request"
          /\ text \in Texts
          /\ features = NoFeatures /\ ai_score = NoScore
       \/ /\ origin = "text" /\ pc = "text"
          /\ text \in Texts
          /\ features = NoFeatures /\ ai_score = NoScore
       \/ /\ origin = "features" /\ pc = "features"
          /\ text = << >>
          /\ features \in FeatureGrid /\ ai_score = NoScore
       \/ /\ origin = "score" /\ pc = "scored"
          /\ text = << >>
          /\ features = NoFeatures /\ ai_score \in ScoreGrid

\* The request model validates its text field before the handler runs.
TextValidate ==
    /\ pc = "request"
    /\ LET r == text_validate(text)
       IN  /\ pc' = IF r.ok THEN "validated" ELSE "rejected"
           /\ request_text' = r.v
           /\ error' = r.error
    /\ UNCHANGED <<origin, text, features, feature_scores, ai_score, label>>

\* The handler of POST /ai/gpt_killer.
gpt_killer ==
    /\ pc = "validated"
    /\ features' = compute_features(request_text)
    /\ feature_scores' = score_ai_likelihood(features')
    /\ ai_score' = feature_scores'.ai_score
    /\ label' = label_from_score(ai_score')
    /\ pc' = "responded"
    /\ UNCHANGED <<origin, text, request_text, error>>

\* A call of compute_features(text).
ComputeFeatures ==
    /\ pc = "text"
    /\ features' = compute_features(text)
    /\ pc' = "features"
    /\ UNCHANGED <<origin, text, request_text, error, feature_scores, ai_score, label>>

\* A call of score_ai_likelihood(features).
ScoreAiLikelihood ==
    /\ pc = "features"
    /\ feature_scores' = score_ai_likelihood(features)
    /\ ai_score' = feature_scores'.ai_score
    /\ pc' = "scored"
    /\ UNCHANGED <<origin, text, request_text, error, features, label>>

\* A call of label_from_score(ai_score).
LabelFromScore ==
    /\ pc = "scored"
    /\ label' = label_from_score(ai_score)
    /\ pc' = "labelled"
    /\ UNCHANGED <<origin, text, request_text, error, features, feature_scores, ai_score>>

Next ==
    \/ TextValidate
    \/ gpt_killer
    \/ ComputeFeatures
    \/ ScoreAiLikelihood
    \/ LabelFromScore

Spec == Init /\ [][Next]_vars

\* ----------------------------------------------------------------- claims

\* The text the scoring core was run on.
SourceText == IF origin = "request" THEN request_text ELSE text

\* features holds compute_features(SourceText).
HasFeatures ==
    \/ origin = "text" /\ pc \in {"features", "scored", "labelled"}
    \/ pc = "responded"

\* feature_scores holds score_ai_likelihood(features).
HasScores ==
    \/ origin \in {"text", "features"} /\ pc \in {"scored", "labelled"}
    \/ pc = "responded"

\* label holds label_from_score(ai_score).
HasLabel == pc \in {"labelled", "responded"}

Abs(x) == IF x < 0 THEN 0 - x ELSE x

InUnit(x) == 0 <= x /\ x <= Scale

\* C1: whatever the text, the five sub-scores, ai_score_raw and ai_score that
\* compute_features followed by score_ai_likelihood yields all lie in [0, 1].
C1_ScoresInUnitInterval ==
    HasScores => \A k \in ScoreKeys : InUnit(feature_scores[k])

\* A text with more connectives than sentences has been scored: the clamp
\* of connectives_score acted.
C1_Witness ==
    /\ origin = "text" /\ pc = "scored"
    /\ features.connectives_per_sentence > Scale
    /\ feature_scores.connectives_score = Scale
    /\ feature_scores.ai_score > feature_scores.ai_score_raw

\* C2: label_from_score returns exactly the label of the score's interval:
\* AI_LIKELY from 0.7 on, UNCERTAIN on [0.4, 0.7), HUMAN_LIKELY below 0.4.
C2_LabelPartition ==
    HasLabel =>
        /\ label \in {"AI_LIKELY", "UNCERTAIN", "HUMAN_LIKELY"}
        /\ label = "AI_LIKELY" <=> 10 * ai_score >= 7 * Scale
        /\ label = "UNCERTAIN" <=> (10 * ai_score >= 4 * Scale /\ 10 * ai_score < 7 * Scale)
        /\ label = "HUMAN_LIKELY" <=> 10 * ai_score < 4 * Scale

\* The boundary score 0.7 has been labelled AI_LIKELY.
C2_Witness ==
    /\ origin = "score" /\ pc = "labelled"
    /\ 10 * ai_score = 7 * Scale
    /\ label = "AI_LIKELY"

\* The text has no token: no word character occurs in it.
NoToken(t) == \A i \in 1..Len(t) : ~IsWord(t[i])

\* C3 as stated: a text without tokens has all seven features 0.0,
\* ai_score_raw = 0.30 and ai_score = 0.40, labelled UNCERTAIN.
C3_Original ==
    (origin = "text" /\ pc = "labelled" /\ NoToken(text)) =>
        /\ \A k \in FeatureKeys : features[k] = 0
        /\ 100 * feature_scores.ai_score_raw = 30 * Scale
        /\ 100 * ai_score = 40 * Scale
        /\ label = "UNCERTAIN"

\* C3 (amended): a text without tokens has all seven features 0.0,
\* ai_score_raw = 0.50 (ttr_score and burstiness_score are both 1.0) and
\* ai_score = 0.60, labelled UNCERTAIN.
C3_ZeroTokenScore ==
    (origin = "text" /\ pc = "labelled" /\ NoToken(text)) =>
        /\ \A k \in FeatureKeys : features[k] = 0
        /\ 100 * feature_scores.ai_score_raw = 50 * Scale
        /\ 100 * ai_score = 60 * Scale
        /\ feature_scores.ai_score = ai_score
        /\ label = "UNCERTAIN"

\* A text of punctuation and whitespace alone has been labelled.
C3_Witness ==
    /\ origin = "text" /\ pc = "labelled"
    /\ NoToken(text)
    /\ \E i \in 1..Len(text) : text[i] = DOT
    /\ \E i \in 1..Len(text) : text[i] = SP

\* The positions of the characters of t that are not whitespace.
NonSpace(t) == {i \in 1..Len(t) : ~IsSpace(t[i])}

\* The first and the last position of NonSpace(t).
FirstNonSpace(t) == CHOOSE i \in NonSpace(t) : \A j \in 1..(i - 1) : j \notin NonSpace(t)

LastNonSpace(t) == CHOOSE i \in NonSpace(t) : \A j \in (i + 1)..Len(t) : j \notin NonSpace(t)

\* What the validator is to accept: trimmed, the text is longer than 300
\* characters, and at least 0.8 of its non-whitespace characters are Hangul
\* syllables.
Acceptable(t) ==
    /\ NonSpace(t) # {}
    /\ LastNonSpace(t) - FirstNonSpace(t) + 1 > 300
    /\ 10 * Cardinality({i \in NonSpace(t) : t[i] \in 44032..55203})
           >= 8 * Cardinality(NonSpace(t))

\* C4: a request is accepted exactly when its text is acceptable; an accepted
\* text reaches the handler trimmed, a rejected one raises a validation error
\* and the scoring core does not run.
C4_ValidatorGate ==
    (origin = "request" /\ pc # "request") =>
        /\ pc \in {"validated", "responded"} <=> Acceptable(text)
        /\ pc \in {"validated", "responded"} =>
               /\ request_text = SubSeq(text, FirstNonSpace(text), LastNonSpace(text))
               /\ error = ""
        /\ pc = "rejected" =>
               /\ error # ""
               /\ features = NoFeatures /\ feature_scores = NoScores
               /\ ai_score = NoScore /\ label = ""

\* A request whose text has surrounding whitespace and exactly 0.8 Hangul
\* syllables has been answered.
C4_Witness ==
    /\ origin = "request" /\ pc = "responded"
    /\ Len(request_text) < Len(text)
    /\ 10 * Cardinality({i \in NonSpace(text) : text[i] \in 44032..55203})
           = 8 * Cardinality(NonSpace(text))
    /\ label # ""

\* The values the other FeatureSet of C5 takes in the feature that differs.
C5_Values == UnitGrid \cup {Dec(15, 10)}

\* C5: a FeatureSet that differs only by a larger formal_ending_ratio has no
\* smaller ai_score; one that differs only by a larger type_token_ratio, both
\* ratios in [0.3, 0.8], has no larger ai_score.
C5_Monotone ==
    (HasScores /\ pc = "scored") =>
        /\ \A v \in C5_Values :
               v >= features.formal_ending_ratio =>
                   score_ai_likelihood([features EXCEPT !.formal_ending_ratio = v]).ai_score
                       >= feature_scores.ai_score
        /\ \A v \in C5_Values :
               ( /\ 10 * features.type_token_ratio >= 3 * Scale
                 /\ v >= features.type_token_ratio
                 /\ 10 * v <= 8 * Scale ) =>
                   score_ai_likelihood([features EXCEPT !.type_token_ratio = v]).ai_score
                       <= feature_scores.ai_score

\* A FeatureSet has been scored for which a larger formal_ending_ratio gives a
\* strictly larger ai_score and a larger type_token_ratio within [0.3, 0.8] a
\* strictly smaller one.
C5_Witness ==
    /\ origin = "features" /\ pc = "scored"
    /\ \E v \in C5_Values :
           /\ v > features.formal_ending_ratio
           /\ score_ai_likelihood([features EXCEPT !.formal_ending_ratio = v]).ai_score
                  > feature_scores.ai_score
    /\ \E v \in C5_Values :
           /\ 10 * features.type_token_ratio >= 3 * Scale
           /\ v > features.type_token_ratio
           /\ 10 * v <= 8 * Scale
           /\ score_ai_likelihood([features EXCEPT !.type_token_ratio = v]).ai_score
                  < feature_scores.ai_score

\* C6 as stated: every feature is non-negative and type_token_ratio,
\* repetition_ratio, formal_ending_ratio and connectives_per_sentence lie in
\* [0, 1].
C6_Original ==
    HasFeatures =>
        /\ \A k \in FeatureKeys : features[k] >= 0
        /\ InUnit(features.type_token_ratio)
        /\ InUnit(features.repetition_ratio)
        /\ InUnit(features.formal_ending_ratio)
        /\ InUnit(features.connectives_per_sentence)

\* C6 (amended): every feature is non-negative and type_token_ratio,
\* repetition_ratio and formal_ending_ratio lie in [0, 1];
\* connectives_per_sentence, a count per sentence, is not bounded by 1.
C6_FeatureRanges ==
    HasFeatures =>
        /\ \A k \in FeatureKeys : features[k] >= 0
        /\ InUnit(features.type_token_ratio)
        /\ InUnit(features.repetition_ratio)
        /\ InUnit(features.formal_ending_ratio)

\* The features of a text with a sentence in a formal ending and with a
\* sentence length spread have been computed.
C6_Witness ==
    /\ origin = "text" /\ pc = "features"
    /\ features.formal_ending_ratio > 0
    /\ features.sentence_burstiness > 0
    /\ features.type_token_ratio < Scale
    /\ features.length_tokens >= Float(30)

\* The number of tokens of each sentence of t.
SentenceTokenCounts(t) ==
    [i \in 1..Len(split_sentences(t)) |-> Len(simple_tokenize(split_sentences(t)[i]))]

\* The text of the end-to-end example: 40 tokens in 2 sentences of 20 tokens
\* each, the most frequent token occurring twice, no sentence in a formal
\* ending and no connective among the tokens.
C7_Example(t) ==
    LET tokens == simple_tokenize(t)
    IN  /\ Len(tokens) = 40
        /\ SentenceTokenCounts(t) = <<20, 20>>
        /\ \E i, j \in 1..40 : i < j /\ tokens[i] = tokens[j]
        /\ \A i, j, k \in 1..40 :
               (i < j /\ j < k) => ~(tokens[i] = tokens[j] /\ tokens[j] = tokens[k])
        /\ \A i \in 1..2 : \A k \in 1..Len(FORMAL_ENDINGS) :
               ~EndsWith(split_sentences(t)[i], FORMAL_ENDINGS[k])
        /\ \A i \in 1..40 : tokens[i] \notin KOREAN_CONNECTIVES

\* The number of distinct tokens of t.
DistinctTokens(t) == Cardinality({simple_tokenize(t)[i] : i \in 1..Len(simple_tokenize(t))})

\* The scores the end-to-end example states.
C7_Scores ==
    /\ feature_scores.ttr_score = 0
    /\ feature_scores.burstiness_score = Scale
    /\ feature_scores.formal_score = 0
    /\ feature_scores.connectives_score = 0
    /\ 100 * feature_scores.repetition_score = 25 * Scale
    /\ 10000 * feature_scores.ai_score_raw = 2375 * Scale
    /\ feature_scores.ai_score = feature_scores.ai_score_raw
    /\ 10000 * ai_score = 2375 * Scale
    /\ label = "HUMAN_LIKELY"

\* C7 as stated: the example text has 40 distinct tokens and the pipeline
\* yields the stated scores and the label HUMAN_LIKELY.
C7_Original ==
    (origin = "text" /\ pc = "labelled" /\ C7_Example(text)) =>
        (DistinctTokens(text) = 40 /\ C7_Scores)

\* C7 (amended): the example text with 39 distinct tokens (one token occurs
\* twice) yields the stated scores and the label HUMAN_LIKELY.
C7_EndToEnd ==
    (origin = "text" /\ pc = "labelled" /\ C7_Example(text)
        /\ DistinctTokens(text) = 39) => C7_Scores

\* The example text with 39 distinct tokens has been labelled.
C7_Witness ==
    /\ origin = "text" /\ pc = "labelled"
    /\ C7_Example(text)
    /\ DistinctTokens(text) = 39

\* C8 as stated: for a text below 30 tokens the final score is no farther from
\* 0.5 than the raw score; from 30 tokens on the final score is the raw score.
C8_ShortTextPulledTowardHalf ==
    (HasScores /\ origin = "text") =>
        /\ features.length_tokens < 30 * Scale =>
               Abs(2 * feature_scores.ai_score - Scale)
                   <= Abs(2 * feature_scores.ai_score_raw - Scale)
        /\ features.length_tokens >= 30 * Scale =>
               feature_scores.ai_score = feature_scores.ai_score_raw

\* C9: a text of exactly one sentence has sentence_burstiness = 0.0; a
\* burstiness other than 0.0 takes at least two sentences.
C9_SingleSentenceBurstiness ==
    HasFeatures =>
        /\ Len(split_sentences(SourceText)) = 1 => features.sentence_burstiness = 0
        /\ features.sentence_burstiness # 0 => Len(split_sentences(SourceText)) >= 2

\* The features of a one-sentence text of several tokens have been computed.
C9_Witness ==
    /\ origin = "text" /\ pc = "features"
    /\ Len(split_sentences(text)) = 1
    /\ features.length_tokens >= Float(2)
    /\ features.avg_sentence_len >= Float(2)

RECURSIVE Concat(_)
\* The concatenation of a sequence of sequences.
Concat(ss) == IF ss = << >> THEN << >> ELSE Head(ss) \o Concat(Tail(ss))

\* C10: the tokens of the sentences, sentence after sentence, are the tokens
\* of the text, so the per-sentence token counts sum to the token count; a
\* text with a token has a sentence, and avg_sentence_len is length_tokens
\* over the number of sentences.
C10_SentenceTokensPartition ==
    HasFeatures =>
        LET tokens == simple_tokenize(SourceText)
            sentences == split_sentences(SourceText)
        IN  /\ Concat([i \in 1..Len(sentences) |-> simple_tokenize(sentences[i])]) = tokens
            /\ SumSeq(SentenceTokenCounts(SourceText)) = Len(tokens)
            /\ Len(tokens) > 0 =>
                   /\ Len(sentences) >= 1
                   /\ features.length_tokens = Len(tokens) * Scale
                   /\ features.avg_sentence_len * Len(sentences)
                          <= features.length_tokens
                   /\ features.length_tokens
                          < (features.avg_sentence_len + 1) * Len(sentences)

\* The features of a text of several sentences, one of them of several
\* tokens, have been computed.
C10_Witness ==
    /\ origin = "text" /\ pc = "features"
    /\ Len(split_sentences(text)) >= 2
    /\ Len(simple_tokenize(text)) > Len(split_sentences(text))
    /\ \A i \in 1..Len(split_sentences(text)) : SentenceTokenCounts(text)[i] > 0

====
